---- MODULE Spec2Model ----
(***************************************************************************)
(* A model of pss.py, the "PSS Maker" form-to-document generator.          *)
(*                                                                         *)
(* Python strings are TLA+ strings (TLC evaluates Len, SubSeq and \o on    *)
(* them).  An optional value (Python None or a value) is the empty tuple   *)
(* or a one-element tuple.  A dict is the sequence of its <<key, value>>   *)
(* pairs in insertion order.                                               *)
(***************************************************************************)
EXTENDS Integers, Sequences, FiniteSets, TLC

VARIABLES
    fs,          \* the paths os.path.exists answers True for
    padYear,     \* whether the platform's strftime pads %Y to four digits
    docx_bytes,  \* st.session_state.docx_bytes
    filename,    \* st.session_state.filename
    offered,     \* what the download button of the last script run offers
    messages,    \* st.success / st.error / st.warning of the last script run
    req,         \* the widget values of the last submitted form
    submitted,   \* form_submit_button's value in the last script run
    readable,    \* whether the template files on disk parse as .docx
    args,        \* arguments of a helper applied on its own
    result       \* what that helper returned

vars == <<fs, padYear, docx_bytes, filename, offered, messages, req, submitted, readable,
         args, result>>

None == <<>>
Some(x) == <<x>>

(***************************************************************************)
(* Bounds of the explored inputs.                                          *)
(***************************************************************************)
MaxContainers == 2

(***************************************************************************)
(* Python str primitives.                                                  *)
(***************************************************************************)
Whitespace == {" ", "\t", "\n"}

CharAt(s, i) == SubSeq(s, i, i)

RECURSIVE lstrip(_)
lstrip(s) ==
    IF Len(s) > 0 /\ CharAt(s, 1) \in Whitespace
    THEN lstrip(SubSeq(s, 2, Len(s)))
    ELSE s

RECURSIVE rstrip(_)
rstrip(s) ==
    IF Len(s) > 0 /\ CharAt(s, Len(s)) \in Whitespace
    THEN rstrip(SubSeq(s, 1, Len(s) - 1))
    ELSE s

strip(s) == rstrip(lstrip(s))

\* s.startswith(k)
StartsWith(s, k) == Len(k) <= Len(s) /\ SubSeq(s, 1, Len(k)) = k

\* k in s
Contains(s, k) ==
    \E i \in 1..(Len(s) - Len(k) + 1) : SubSeq(s, i, i + Len(k) - 1) = k

\* s.replace(k, v): leftmost, non-overlapping occurrences, scanning once.
RECURSIVE replace(_, _, _)
replace(s, k, v) ==
    IF Len(k) = 0
    THEN IF Len(s) = 0 THEN v
         ELSE v \o CharAt(s, 1) \o replace(SubSeq(s, 2, Len(s)), k, v)
    ELSE IF Len(s) < Len(k) THEN s
    ELSE IF StartsWith(s, k)
         THEN v \o replace(SubSeq(s, Len(k) + 1, Len(s)), k, v)
         ELSE CharAt(s, 1) \o replace(SubSeq(s, 2, Len(s)), k, v)

Digits == <<"0", "1", "2", "3", "4", "5", "6", "7", "8", "9">>

IsDigit(c) == \E i \in 1..Len(Digits) : Digits[i] = c

DigitValue(c) == (CHOOSE i \in 1..Len(Digits) : Digits[i] = c) - 1

\* int(s) for a string of decimal digits
RECURSIVE int(_)
int(s) ==
    IF Len(s) = 0 THEN 0
    ELSE 10 * int(SubSeq(s, 1, Len(s) - 1)) + DigitValue(CharAt(s, Len(s)))

\* str(n) for n >= 0
RECURSIVE str(_)
str(n) == IF n < 10 THEN Digits[n + 1] ELSE str(n \div 10) \o Digits[(n % 10) + 1]

\* zero-padding to a width, as %d/%m of strftime and the .2f fraction do
RECURSIVE Pad(_, _)
Pad(s, w) == IF Len(s) >= w THEN s ELSE Pad("0" \o s, w)

(***************************************************************************)
(* dict: insertion-ordered <<key, value>> pairs.                           *)
(***************************************************************************)
HasKey(m, k) == \E i \in 1..Len(m) : m[i][1] = k

\* m.get(k, default)
Get(m, k, default) ==
    IF HasKey(m, k) THEN m[CHOOSE i \in 1..Len(m) : m[i][1] = k][2] ELSE default

\* m[k] = v: an existing key keeps its position, a new one is appended
DictSet(m, k, v) ==
    IF HasKey(m, k)
    THEN [i \in 1..Len(m) |-> IF m[i][1] = k THEN <<k, v>> ELSE m[i]]
    ELSE Append(m, <<k, v>>)

(***************************************************************************)
(* find_template_for_code                                                  *)
(***************************************************************************)
\* Variant of FirstExisting: the last candidate that exists, not the first.
RECURSIVE LastExisting(_, _)
LastExisting(candidates, files) ==
    IF Len(candidates) = 0 THEN None
    ELSE IF candidates[Len(candidates)] \in files THEN Some(candidates[Len(candidates)])
    ELSE LastExisting(SubSeq(candidates, 1, Len(candidates) - 1), files)

\* The first candidate that exists, or None.
RECURSIVE FirstExisting(_, _)
FirstExisting(candidates, files) ==
    IF Len(candidates) = 0 THEN None
    ELSE IF Head(candidates) \in files THEN Some(Head(candidates))
    ELSE FirstExisting(Tail(candidates), files)

CandidatesMOD == <<"MOD PSS.docx", "/mnt/data/MOD PSS.docx", "templates/MOD PSS.docx">>

CandidatesFAR == <<"FAR PSS.docx", "/mnt/data/FAR PSS.docx", "templates/FAR PSS.docx">>

\* code is an optional string: (code or "").strip()
find_template_for_code(code, files) ==
    LET c == strip(IF code = None THEN "" ELSE code[1])
    IN  IF c = "001" THEN FirstExisting(CandidatesMOD, files)
        ELSE IF c = "002" THEN FirstExisting(CandidatesFAR, files)
        ELSE None

(***************************************************************************)
(* The submitted form: date parsing.                                       *)
(***************************************************************************)
AllDigits(s) == \A i \in 1..Len(s) : IsDigit(CharAt(s, i))

\* re.match(r"^(\d{1,2})/(\d{1,2})/(\d{4})$", s): the groups (d, m, y), or None.
\* i and j are the lengths of the first two groups.
re_match_date(s) ==
    LET splits == {ij \in {1, 2} \X {1, 2} :
                     /\ Len(s) = ij[1] + ij[2] + 6
                     /\ AllDigits(SubSeq(s, 1, ij[1]))
                     /\ CharAt(s, ij[1] + 1) = "/"
                     /\ AllDigits(SubSeq(s, ij[1] + 2, ij[1] + ij[2] + 1))
                     /\ CharAt(s, ij[1] + ij[2] + 2) = "/"
                     /\ AllDigits(SubSeq(s, ij[1] + ij[2] + 3, Len(s)))}
    IN  IF splits = {} THEN None
        ELSE LET ij == CHOOSE x \in splits : TRUE
             IN  Some(<<SubSeq(s, 1, ij[1]),
                        SubSeq(s, ij[1] + 2, ij[1] + ij[2] + 1),
                        SubSeq(s, ij[1] + ij[2] + 3, Len(s))>>)

IsLeap(y) == y % 4 = 0 /\ (y % 100 # 0 \/ y % 400 = 0)

DaysInMonth(y, m) ==
    IF m = 2 THEN (IF IsLeap(y) THEN 29 ELSE 28)
    ELSE IF m \in {4, 6, 9, 11} THEN 30
    ELSE 31

\* datetime(y, m, d): the date, or None for the ValueError of an impossible one.
datetime(y, m, d) ==
    IF /\ 1 <= y /\ y <= 9999
       /\ 1 <= m /\ m <= 12
       /\ 1 <= d /\ d <= DaysInMonth(y, m)
    THEN Some([year |-> y, month |-> m, day |-> d])
    ELSE None

\* dt.strftime("%d/%m/%Y").  %d and %m are two digits everywhere; %Y of a year
\* below 1000 is four digits on some C libraries and unpadded on others.
strftime(dt, pad) ==
    Pad(str(dt.day), 2) \o "/" \o Pad(str(dt.month), 2) \o "/"
        \o (IF pad THEN Pad(str(dt.year), 4) ELSE str(dt.year))

\* date_str_final of the handler: the typed date when it parses, else the picker's.
DateStrFinal(date_text, date_picker, pad) ==
    LET dt_match == re_match_date(strip(date_text))
        parsed ==
            IF dt_match = None THEN None
            ELSE LET g  == dt_match[1]
                     dt == datetime(int(g[3]), int(g[2]), int(g[1]))
                 IN  IF dt = None THEN None ELSE Some(strftime(dt[1], pad))
    IN  IF parsed = None \/ parsed = Some("")
        THEN strftime(date_picker, pad)
        ELSE parsed[1]

(***************************************************************************)
(* The submitted form: the token mapping.                                  *)
(***************************************************************************)
\* Variant of PoValue: the trimmed input, with no default for a blank one.
PoValueNoDefault(po_id) == strip(po_id)

\* po_value = po_id.strip() if po_id and po_id.strip() else "PO012"
PoValue(po_id) == IF po_id # "" /\ strip(po_id) # "" THEN strip(po_id) ELSE "PO012"

item_labels == <<"A", "B", "C", "D", "E", "F">>

\* fallback_codes = [item_details.get(lbl, ("", 0))[0] for lbl in item_labels]
FallbackCodes(item_details) ==
    [i \in 1..Len(item_labels) |-> Get(item_details, item_labels[i], <<"", 0>>)[1]]

\* val of batch slot i (1-based here, range(4) in the code)
BatchVal(b, item_details, i) ==
    LET b_val == strip(b[i])
        fallback_codes == FallbackCodes(item_details)
    IN  IF b_val # "" THEN b_val
        ELSE IF i - 1 < Len(fallback_codes) THEN fallback_codes[i] ELSE ""

TokenBraced(i) == "{{B" \o str(i) \o "}}"
TokenPlain(i) == "B" \o str(i)
TokenTriple(i) == "{{{B" \o str(i) \o "}}}"

\* for i in range(4): mapping[token_braced] = val; mapping[token_plain] = val
RECURSIVE AddBatchTokens(_, _, _, _)
AddBatchTokens(mapping, b, item_details, i) ==
    IF i > 4 THEN mapping
    ELSE AddBatchTokens(
             DictSet(DictSet(mapping, TokenBraced(i), BatchVal(b, item_details, i)),
                     TokenPlain(i), BatchVal(b, item_details, i)),
             b, item_details, i + 1)

\* for i in range(4): if triple not in mapping: mapping[triple] = mapping.get(braced, "")
RECURSIVE AddTripleTokens(_, _)
AddTripleTokens(mapping, i) ==
    IF i > 4 THEN mapping
    ELSE AddTripleTokens(
             IF HasKey(mapping, TokenTriple(i)) THEN mapping
             ELSE DictSet(mapping, TokenTriple(i), Get(mapping, TokenBraced(i), "")),
             i + 1)

PoTokens(mapping, po_value) ==
    DictSet(DictSet(DictSet(DictSet(mapping,
        "{{PO012}}", po_value),
        "PO012", po_value),
        "{{P.O. ID}}", po_value),
        "{{P.O. ID:}}", po_value)

DateTokens(mapping, date_str_final) ==
    DictSet(DictSet(mapping,
        "{{DD/MM/YYYY}}", date_str_final),
        "DD/MM/YYYY", date_str_final)

\* The mapping of one request, key by key in the handler's order.
BuildMapping(date_str_final, po_value, b, item_details) ==
    AddTripleTokens(
        AddBatchTokens(
            PoTokens(DateTokens(<<>>, date_str_final), po_value),
            b, item_details, 1),
        1)

(***************************************************************************)
(* The submitted form: the output filename.                                *)
(***************************************************************************)
Suffix(user_code) ==
    IF user_code = "001" THEN "MOD" ELSE IF user_code = "002" THEN "FAR" ELSE "GEN"

\* The character class of r'[\/:*?"<>|]': \/ is an escaped slash.
SubClass == {"/", ":", "*", "?", "\"", "<", ">", "|"}

\* re.sub(class, '', s)
RECURSIVE re_sub_class(_, _)
re_sub_class(class, s) ==
    IF Len(s) = 0 THEN ""
    ELSE (IF CharAt(s, 1) \in class THEN "" ELSE CharAt(s, 1))
             \o re_sub_class(class, SubSeq(s, 2, Len(s)))

SafePo(po_value) == re_sub_class(SubClass, po_value)

\* safe_po[-3:] if len(safe_po) >= 3 else "000"
PoSuffix(safe_po) ==
    IF Len(safe_po) >= 3 THEN SubSeq(safe_po, Len(safe_po) - 2, Len(safe_po)) ELSE "000"

Filename(user_code, po_value, current_container, total_containers) ==
    "PSS LIPL " \o Suffix(user_code) \o " " \o PoSuffix(SafePo(po_value)) \o " "
        \o str(current_container) \o " of " \o str(total_containers) \o ".docx"

(***************************************************************************)
(* The substitution engine.  A paragraph is the sequence of its runs'      *)
(* texts; a block holds paragraphs and tables; a table is rows of cells,   *)
(* each cell a block.                                                      *)
(***************************************************************************)
\* for key, val in mapping.items(): if key in run.text: run.text = run.text.replace(key, val)
RECURSIVE ReplaceInRun(_, _)
ReplaceInRun(text, mapping) ==
    IF Len(mapping) = 0 THEN text
    ELSE LET key == Head(mapping)[1]
             val == Head(mapping)[2]
         IN  ReplaceInRun(IF Contains(text, key) THEN replace(text, key, val) ELSE text,
                          Tail(mapping))

replace_text_in_paragraph(paragraph, mapping) ==
    [r \in 1..Len(paragraph) |-> ReplaceInRun(paragraph[r], mapping)]

RECURSIVE replace_text_in_block(_, _)
RECURSIVE replace_text_in_table(_, _)

replace_text_in_table(table, mapping) ==
    [row \in 1..Len(table) |->
        [cell \in 1..Len(table[row]) |-> replace_text_in_block(table[row][cell], mapping)]]

replace_text_in_block(block, mapping) ==
    [paragraphs |-> [p \in 1..Len(block.paragraphs) |->
                        replace_text_in_paragraph(block.paragraphs[p], mapping)],
     tables     |-> [t \in 1..Len(block.tables) |->
                        replace_text_in_table(block.tables[t], mapping)]]

(***************************************************************************)
(* Documents.  A document is its body block, its sections (each a header   *)
(* and a footer block) and the inline pictures added to it.                *)
(***************************************************************************)
EmptyBlock == [paragraphs |-> <<>>, tables |-> <<>>]

\* doc.add_paragraph(text): no run is added for an empty text
ParagraphOf(text) == IF text = "" THEN <<>> ELSE <<text>>

\* Document(template_path): what the template files hold.  The templates are
\* not part of the repository; these carry the tokens the handler's comments
\* name, in the body, in a table cell and in the header and footer.
TemplateDoc(template_path) ==
    [body |->
        [paragraphs |->
            << <<"Date: {{DD/MM/YYYY}}">>,
               <<"Sending you Pre-Shipment sample of {{B1}}">>,
               <<"P.O. ID: ", "{{PO012}}">>,
               <<template_path>> >>,
         tables |->
            << << << [paragraphs |-> << <<"Batch">> >>, tables |-> <<>>],
                     [paragraphs |-> << <<"{{B2}}">> >>, tables |-> <<>>] >> >> >>],
     sections |->
        << [header |-> [paragraphs |-> << <<"Ref {{P.O. ID}}">> >>, tables |-> <<>>],
            footer |-> [paragraphs |-> << <<"{{DD/MM/YYYY}}">> >>, tables |-> <<>>]] >>,
     pictures |-> <<>>]

\* doc.save(bio); bio.seek(0); bio.read(): the bytes are the document they encode
Save(doc) == [docx |-> doc]

TypeErrorMessage ==
    "replace_text_in_block() missing 1 required positional argument: 'mapping'"

\* replace_text_in_block(x): the call gives one argument to a function of two,
\* which raises TypeError before the function's body runs.
CallBlockWithoutMapping(block) == [raised |-> Some(TypeErrorMessage), block |-> block]

\* The body call is outside any try; the header and footer calls are each inside
\* try/except Exception: pass, which leaves the block as it was.
apply_replacements(doc, mapping) ==
    LET body == CallBlockWithoutMapping(doc.body)
    IN  IF body.raised # None
        THEN [raised |-> body.raised, doc |-> doc]
        ELSE [raised |-> None,
              doc |-> [doc EXCEPT
                  !.body = body.block,
                  !.sections = [i \in 1..Len(doc.sections) |->
                      LET header == CallBlockWithoutMapping(doc.sections[i].header)
                          footer == CallBlockWithoutMapping(doc.sections[i].footer)
                      IN  [header |-> IF header.raised # None
                                      THEN doc.sections[i].header ELSE header.block,
                           footer |-> IF footer.raised # None
                                      THEN doc.sections[i].footer ELSE footer.block]]]]

\* Returns the bytes, or the message of the exception raised.  isDocx: whether
\* Document(template_path) can parse the file.
create_docx_from_template(template_path, mapping, isDocx) ==
    IF ~isDocx
    THEN [raised |-> Some("Package not found at '" \o template_path \o "'"), bytes |-> None]
    ELSE LET r == apply_replacements(TemplateDoc(template_path), mapping)
         IN  IF r.raised # None
             THEN [raised |-> r.raised, bytes |-> None]
             ELSE [raised |-> None, bytes |-> Some(Save(r.doc))]

\* f"{float(weight):.2f}" of a weight held in hundredths
FormatWeight(weight) == str(weight \div 100) \o "." \o Pad(str(weight % 100), 2)

\* for item_label, (code, weight) in item_details.items(): one paragraph each
ItemParagraphs(item_details) ==
    [i \in 1..Len(item_details) |->
        <<item_details[i][1] \o ") " \o item_details[i][2][1] \o " - "
            \o FormatWeight(item_details[i][2][2]) \o " MT">>]

\* letterhead_path and seal_path are optional paths; a picture is added when
\* the path is given and exists (an existing image file is taken to be readable).
create_docx_fallback(date_str, salutation1, full_name, designation, company_name, city_state, salutation2, po_id, custom_line, item_details, letterhead_path, seal_path, files) ==
    LET letterhead == letterhead_path # None /\ letterhead_path[1] \in files
        seal == seal_path # None /\ seal_path[1] \in files
        cells == << [paragraphs |-> << <<"Kindly Att.">> >>, tables |-> <<>>],
                    [paragraphs |-> << <<"Date: " \o date_str>> >>, tables |-> <<>>] >>
    IN  Save(
        [body |->
            [paragraphs |->
                (IF letterhead THEN << <<"">> >> ELSE <<>>)
                \o << <<>>,
                      <<>>,
                      <<salutation1 \o " " \o full_name \o ",">>,
                      <<"(" \o designation \o ")">>,
                      <<company_name \o ",">>,
                      ParagraphOf(city_state),
                      <<>>,
                      <<"Dear " \o salutation2 \o ",">>,
                      <<>>,
                      ParagraphOf(custom_line),
                      <<"P.O. ID: " \o po_id>>,
                      <<>> >>
                \o ItemParagraphs(item_details)
                \o << <<>>,
                      <<"Kindly acknowledge receipt of the same.">>,
                      <<>>,
                      <<"Yours Faithfully,">>,
                      <<>> >>
                \o (IF seal THEN << <<"">>, <<>> >> ELSE <<>>)
                \o << <<"Authorised Signatory">>,
                      <<"Aravally Processed Agrotech Pvt Ltd">> >>,
             tables |-> << <<cells>> >>],
         sections |-> << [header |-> EmptyBlock, footer |-> EmptyBlock] >>,
         pictures |-> (IF letterhead THEN <<letterhead_path[1]>> ELSE <<>>)
                      \o (IF seal THEN <<seal_path[1]>> ELSE <<>>)])

(***************************************************************************)
(* One script run with the form submitted.                                 *)
(***************************************************************************)
SealCandidates == <<"/mnt/data/APAPL SEAL.png", "APAPL SEAL.png", "APAPL_SEAL.png", "seal.png">>

LetterheadPath(files) == IF "letterhead.png" \in files THEN Some("letterhead.png") ELSE None

FallbackOf(form, files, pad) ==
    create_docx_fallback(
        DateStrFinal(form.date_text, form.date_picker, pad),
        form.salutation1, form.full_name, form.designation, form.company_name,
        form.city_state, form.salutation2, PoValue(form.po_id), form.custom_line,
        form.item_details, LetterheadPath(files), FirstExisting(SealCandidates, files),
        files)

MappingOf(form, pad) ==
    BuildMapping(DateStrFinal(form.date_text, form.date_picker, pad),
                 PoValue(form.po_id), form.b, form.item_details)

FilenameOf(form) ==
    Filename(form.user_code, PoValue(form.po_id),
             form.current_container, form.total_containers)

\* Variant of Generate: the exception of the template branch is reported and
\* no fallback is built.
GenerateNoFallbackOnError(form, files, pad, isDocx) ==
    LET template_path == find_template_for_code(Some(form.user_code), files)
    IN  IF template_path # None
        THEN LET r == create_docx_from_template(template_path[1], MappingOf(form, pad), isDocx)
             IN  IF r.raised = None
                 THEN [final_bytes |-> r.bytes,
                       shown |-> <<[kind |-> "success",
                                    text |-> "Template used: " \o template_path[1]]>>]
                 ELSE [final_bytes |-> None,
                       shown |-> <<[kind |-> "error",
                                    text |-> "Error applying template replacements: "
                                                 \o r.raised[1]]>>]
        ELSE [final_bytes |-> Some(FallbackOf(form, files, pad)),
              shown |-> <<[kind |-> "warning",
                           text |-> "Template for this code not found - generating fallback DOCX."]>>]

\* Variant of Generate: a missing template is reported and nothing is built.
GenerateAbortWhenMissing(form, files, pad, isDocx) ==
    LET template_path == find_template_for_code(Some(form.user_code), files)
    IN  IF template_path # None
        THEN LET r == create_docx_from_template(template_path[1], MappingOf(form, pad), isDocx)
             IN  IF r.raised = None
                 THEN [final_bytes |-> r.bytes,
                       shown |-> <<[kind |-> "success",
                                    text |-> "Template used: " \o template_path[1]]>>]
                 ELSE [final_bytes |-> Some(FallbackOf(form, files, pad)),
                       shown |-> <<[kind |-> "error",
                                    text |-> "Error applying template replacements: "
                                                 \o r.raised[1]]>>]
        ELSE [final_bytes |-> None,
              shown |-> <<[kind |-> "warning",
                           text |-> "Template for this code not found - generating fallback DOCX."]>>]

\* if template_path: try create_docx_from_template except Exception: st.error, fallback
\* else: st.warning, fallback.   The bytes and the messages shown.
Generate(form, files, pad, isDocx) ==
    LET template_path == find_template_for_code(Some(form.user_code), files)
    IN  IF template_path # None
        THEN LET r == create_docx_from_template(template_path[1], MappingOf(form, pad), isDocx)
             IN  IF r.raised = None
                 THEN [final_bytes |-> r.bytes,
                       shown |-> <<[kind |-> "success",
                                    text |-> "Template used: " \o template_path[1]]>>]
                 ELSE [final_bytes |-> Some(FallbackOf(form, files, pad)),
                       shown |-> <<[kind |-> "error",
                                    text |-> "Error applying template replacements: "
                                                 \o r.raised[1]]>>]
        ELSE [final_bytes |-> Some(FallbackOf(form, files, pad)),
              shown |-> <<[kind |-> "warning",
                           text |-> "Template for this code not found - generating fallback DOCX."]>>]

\* if st.session_state.get("docx_bytes"): st.download_button(...)
\* (the bytes of a saved document are never empty)
DownloadButton(bytes, name) ==
    IF bytes # None THEN Some([data |-> bytes[1], file_name |-> name]) ELSE None

(***************************************************************************)
(* The session: script runs of one browser session.                        *)
(***************************************************************************)
Today == [year |-> 2026, month |-> 11, day |-> 3]

\* The files whose presence the session's runs depend on.
SessionPaths == {"MOD PSS.docx", "templates/FAR PSS.docx", "seal.png"}

SessionForms ==
    [date_picker       : {Today},
     date_text         : {"3/11/2026"},
     salutation1       : {"Mr."},
     user_code         : {"001", "002", "999", " 001", "002 "},
     full_name         : {"Mahendra Tripathi"},
     designation       : {"Director"},
     company_name      : {"Lamberti India Pvt. Ltd."},
     city_state        : {"Rajkot, Gujarat"},
     po_id             : {"", "PO-7781"},
     custom_line       : {"Sending you Pre-Shipment sample of"},
     salutation2       : {"Sir"},
     total_containers  : {2},
     current_container : {1, 2},
     b                 : {<<"LOT-44", "", "", "">>},
     item_details      : {<< <<"A", <<"GG1", 450>> >> >>}]

\* The state before any stand-alone helper call, and of the first script run:
\* "docx_bytes" not in st.session_state, so both fields are set to None.
FirstRun ==
    /\ docx_bytes = None
    /\ filename = None
    /\ offered = None
    /\ messages = <<>>
    /\ req = None
    /\ submitted = FALSE

Init ==
    /\ fs \in SUBSET SessionPaths
    /\ padYear \in BOOLEAN
    /\ readable \in BOOLEAN
    /\ FirstRun
    /\ args = None
    /\ result = None

\* A script run with submitted = True: lines 249-347.
Submit ==
    \E form \in SessionForms :
        \E gen \in {Generate(form, fs, padYear, readable)} :
            \E name \in {Some(FilenameOf(form))} :
                /\ docx_bytes' = gen.final_bytes
                /\ filename' = name
                /\ messages' = gen.shown
                /\ offered' = DownloadButton(gen.final_bytes, name)
                /\ req' = Some(form)
                /\ submitted' = TRUE
                /\ UNCHANGED <<fs, padYear, readable, args, result>>

\* A script run with submitted = False (any other interaction, the download click).
Rerun ==
    /\ messages' = <<>>
    /\ offered' = DownloadButton(docx_bytes, filename)
    /\ submitted' = FALSE
    /\ UNCHANGED <<fs, padYear, readable, docx_bytes, filename, req, args, result>>

Next == Submit \/ Rerun

Spec == Init /\ [][Next]_vars

(***************************************************************************)
(* find_template_for_code applied on its own.                              *)
(***************************************************************************)
LocatorPaths ==
    {CandidatesMOD[i] : i \in 1..Len(CandidatesMOD)}
        \cup {CandidatesFAR[i] : i \in 1..Len(CandidatesFAR)}

LocatorCodes ==
    {None, Some(""), Some("001"), Some("002"), Some(" 001"), Some("002\n"),
     Some("999"), Some("0010"), Some("00 1")}

InitLocator ==
    /\ fs \in SUBSET LocatorPaths
    /\ padYear = TRUE
    /\ readable = TRUE
    /\ FirstRun
    /\ args \in LocatorCodes
    /\ result = None

CallLocator ==
    /\ result = None
    /\ result' = Some(find_template_for_code(args, fs))
    /\ UNCHANGED <<fs, padYear, readable, docx_bytes, filename, offered, messages, req,
                   submitted, args>>

SpecLocator == InitLocator /\ [][CallLocator]_vars

(***************************************************************************)
(* The date and the token mapping of one request, computed on their own.   *)
(***************************************************************************)
MappingInputs ==
    [date_picker  : {Today, [year |-> 2024, month |-> 2, day |-> 29]},
     date_text    : {"03/11/2026", "3/1/2026", " 29/02/2024 ", "29/02/2023", "31/02/2024",
                     "31/04/2025", "29/02/1900", "00/01/2024", "13/13/2024", "01/01/0000",
                     "1/1/0999", "2026-11-03", "1/1/26", "01/001/2024", "a1/01/2024", ""},
     po_id        : {"", " ", "\t \n", "PO012", " PO-7781 ", "PO0123", "x"},
     b            : {<<"", "", "", "">>, <<" LOT-44 ", "B1", "", "">>},
     item_details : {<< <<"A", <<"", 450>> >> >>,
                     << <<"A", <<"GG1", 450>> >>, <<"B", <<"GG2", 1025>> >> >>}]

InitMapping ==
    /\ fs = {}
    /\ padYear \in BOOLEAN
    /\ readable = TRUE
    /\ FirstRun
    /\ args \in {Some(x) : x \in MappingInputs}
    /\ result = None

CallMapping ==
    /\ result = None
    /\ result' = Some([date_str_final |->
                           DateStrFinal(args[1].date_text, args[1].date_picker, padYear),
                       po_value |-> PoValue(args[1].po_id),
                       mapping  |-> MappingOf(args[1], padYear)])
    /\ UNCHANGED <<fs, padYear, readable, docx_bytes, filename, offered, messages, req,
                   submitted, args>>

SpecMapping == InitMapping /\ [][CallMapping]_vars

(***************************************************************************)
(* replace_text_in_paragraph applied to one paragraph with a request's     *)
(* mapping.                                                                *)
(***************************************************************************)
ParagraphInputs ==
    [paragraph    : {<<"Sending you Pre-Shipment sample of {{B1}}">>,
                     <<"P.O. ID: ", "{{PO012}}">>,
                     <<"Date: {{DD/MM/YYYY}}", " Ref {{P.O. ID:}}">>,
                     <<"{{{B1}}}">>,
                     <<"Batches {{{B2}}} and {{B1}}">>,
                     <<"{{B", "1}}">>,
                     <<"B3 B3">>,
                     <<"Kindly acknowledge receipt of the same.">>},
     date_picker  : {Today},
     date_text    : {"03/11/2026"},
     po_id        : {"PO-7781", "PO0123", " X1 "},
     b            : {<<"", "", "", "">>, <<"LOT-44", "LOT-45", "L3", "">>,
                     <<"B2", "X9", "", "">>},
     item_details : {<< <<"A", <<"", 450>> >> >>, << <<"A", <<"GG1", 450>> >> >>}]

InitParagraph ==
    /\ fs = {}
    /\ padYear = TRUE
    /\ readable = TRUE
    /\ FirstRun
    /\ args \in {Some(x) : x \in ParagraphInputs}
    /\ result = None

CallParagraph ==
    /\ result = None
    /\ result' = Some(replace_text_in_paragraph(args[1].paragraph,
                                                MappingOf(args[1], padYear)))
    /\ UNCHANGED <<fs, padYear, readable, docx_bytes, filename, offered, messages, req,
                   submitted, args>>

SpecParagraph == InitParagraph /\ [][CallParagraph]_vars

(***************************************************************************)
(* The filename composed on its own.                                       *)
(***************************************************************************)
FilenameInputs ==
    [user_code         : {"001", "002", "999", " 001", ""},
     po_id             : {"", "PO012", "PO-7781", "AB", "a/b:c", "12*?", "<x>|\"y",
                          "A\\B", "..\\.."},
     current_container : 1..MaxContainers,
     total_containers  : 1..MaxContainers]

InitFilename ==
    /\ fs = {}
    /\ padYear = TRUE
    /\ readable = TRUE
    /\ FirstRun
    /\ args \in {Some(x) : x \in FilenameInputs}
    /\ result = None

CallFilename ==
    /\ result = None
    /\ result' = Some(FilenameOf(args[1]))
    /\ UNCHANGED <<fs, padYear, readable, docx_bytes, filename, offered, messages, req,
                   submitted, args>>

SpecFilename == InitFilename /\ [][CallFilename]_vars

(***************************************************************************)
(* Properties.                                                             *)
(***************************************************************************)
\* The template document with the mapping applied to the body and to every
\* section's header and footer.
FilledTemplate(template_path, mapping) ==
    LET doc == TemplateDoc(template_path)
    IN  [doc EXCEPT
            !.body = replace_text_in_block(doc.body, mapping),
            !.sections = [i \in 1..Len(doc.sections) |->
                [header |-> replace_text_in_block(doc.sections[i].header, mapping),
                 footer |-> replace_text_in_block(doc.sections[i].footer, mapping)]]]

TemplatePathOfRequest == find_template_for_code(Some(req[1].user_code), fs)

\* C1: a request whose code resolves to an existing (well-formed) template file
\* completes without an error being reported, and the stored artifact is the
\* template with every mapped token replaced in the body paragraphs and tables
\* and in every section's header and footer, never the from-scratch document.
C1_TemplateFilled ==
    (submitted /\ req # None /\ readable /\ TemplatePathOfRequest # None)
        => /\ docx_bytes =
                  Some(Save(FilledTemplate(TemplatePathOfRequest[1],
                                           MappingOf(req[1], padYear))))
           /\ docx_bytes # Some(FallbackOf(req[1], fs, padYear))
           /\ \A i \in 1..Len(messages) : messages[i].kind # "error"

\* The number of places where k occurs in s.
Occurrences(s, k) ==
    Cardinality({i \in 1..(Len(s) - Len(k) + 1) : SubSeq(s, i, i + Len(k) - 1) = k})

RECURSIVE Join(_)
Join(paragraph) ==
    IF Len(paragraph) = 0 THEN "" ELSE Head(paragraph) \o Join(Tail(paragraph))

RECURSIVE SumOccurrences(_, _)
SumOccurrences(paragraph, k) ==
    IF Len(paragraph) = 0 THEN 0
    ELSE Occurrences(Head(paragraph), k) + SumOccurrences(Tail(paragraph), k)

\* Every occurrence of every key in the paragraph's text lies inside one run.
TokensInsideRuns(paragraph, mapping) ==
    \A j \in 1..Len(mapping) :
        Occurrences(Join(paragraph), mapping[j][1]) = SumOccurrences(paragraph, mapping[j][1])

\* C2: for the mapping of one request and a paragraph whose tokens each lie
\* wholly inside a single run, after replace_text_in_paragraph no run contains
\* any key of the mapping, bare or wrapped, whatever the field values are.
C2_NoKeyRemains ==
    result # None =>
        LET mapping == MappingOf(args[1], padYear)
        IN  TokensInsideRuns(args[1].paragraph, mapping)
                => \A r \in 1..Len(result[1]) : \A j \in 1..Len(mapping) :
                       ~Contains(result[1][r], mapping[j][1])

\* C9: a run that contains the triple-brace placeholder of slot i has the whole
\* placeholder replaced by that slot's batch value, and no brace of the
\* placeholder is left around the value.
C9_TripleBraceReplaced ==
    result # None =>
        \A r \in 1..Len(args[1].paragraph) : \A i \in 1..4 :
            LET val == BatchVal(args[1].b, args[1].item_details, i)
            IN  Contains(args[1].paragraph[r], TokenTriple(i))
                    => /\ Contains(result[1][r], val)
                       /\ ~Contains(result[1][r], "{" \o val \o "}")
                       /\ args[1].paragraph[r] = TokenTriple(i) => result[1][r] = val

\* The characters that are illegal in a filename.
IllegalFilenameChars == {"\\", "/", ":", "*", "?", "\"", "<", ">", "|"}

\* C4: for every identifier, code and counter pair, the composed filename
\* contains none of the characters \ / : * ? " < > |.
C4_FilenameSafe ==
    result # None =>
        \A i \in 1..Len(result[1]) : CharAt(result[1], i) \notin IllegalFilenameChars

\* How the locator treats a code: the candidates it would look for.
LocatorTreatsAsMOD(user_code) ==
    find_template_for_code(Some(user_code), {CandidatesMOD[1]}) # None

LocatorTreatsAsFAR(user_code) ==
    find_template_for_code(Some(user_code), {CandidatesFAR[1]}) # None

\* C10: for every entered code, the filename carries MOD whenever the locator
\* treats the code as 001, FAR whenever it treats it as 002, and GEN only
\* when the locator treats the code as unrecognized.
C10_SuffixAgreesWithLocator ==
    (submitted /\ req # None) =>
        /\ LocatorTreatsAsMOD(req[1].user_code) => Contains(filename[1], " MOD ")
        /\ LocatorTreatsAsFAR(req[1].user_code) => Contains(filename[1], " FAR ")
        /\ Contains(filename[1], " GEN ")
               => ~LocatorTreatsAsMOD(req[1].user_code) /\ ~LocatorTreatsAsFAR(req[1].user_code)

\* C5: for a code that is 001 or 002 once trimmed, the locator returns the
\* first path of the fixed candidate order that exists, for every set of
\* existing files; it returns None exactly when the code is neither or no
\* candidate exists.
C5_LocatorFirstMatch ==
    result # None =>
        LET code       == strip(IF args = None THEN "" ELSE args[1])
            candidates == IF code = "001" THEN CandidatesMOD
                          ELSE IF code = "002" THEN CandidatesFAR
                          ELSE <<>>
            existing   == {i \in 1..Len(candidates) : candidates[i] \in fs}
        IN  IF existing = {}
            THEN result[1] = None
            ELSE \E i \in existing :
                    /\ \A j \in existing : i <= j
                    /\ result[1] = Some(candidates[i])

\* The locator was asked for a padded code whose first candidate is missing and
\* whose second and third exist, and returned the second.
C5_Witness ==
    /\ result # None
    /\ args = Some(" 001")
    /\ fs = {CandidatesMOD[2], CandidatesMOD[3], CandidatesFAR[1]}
    /\ result[1] = Some(CandidatesMOD[2])

IdentifierKeys == {"{{PO012}}", "PO012", "{{P.O. ID}}", "{{P.O. ID:}}"}

IsBlank(s) == \A i \in 1..Len(s) : CharAt(s, i) \in Whitespace

\* C7: for an empty or whitespace-only identifier input every identifier key of
\* the mapping resolves to PO012 and never to the empty string; for any other
\* input all four resolve to the trimmed identifier.
C7_IdentifierDefault ==
    result # None =>
        \A k \in IdentifierKeys :
            /\ HasKey(result[1].mapping, k)
            /\ Get(result[1].mapping, k, "") # ""
            /\ Get(result[1].mapping, k, "") =
                   (IF IsBlank(args[1].po_id) THEN "PO012" ELSE strip(args[1].po_id))

\* A whitespace-only identifier was mapped to the default.
C7_Witness ==
    /\ result # None
    /\ args[1].po_id = "\t \n"
    /\ Get(result[1].mapping, "{{P.O. ID:}}", "") = "PO012"

MonthLengths == <<31, 28, 31, 30, 31, 30, 31, 31, 30, 31, 30, 31>>

\* A day, month and year that denote a date of the calendar.
RealDate(d, m, y) ==
    /\ y >= 1
    /\ m \in 1..12
    /\ d >= 1
    /\ d <= MonthLengths[m] + (IF m = 2 /\ IsLeap(y) THEN 1 ELSE 0)

\* DD/MM/YYYY
DDMMYYYY(d, m, y) == Pad(str(d), 2) \o "/" \o Pad(str(m), 2) \o "/" \o Pad(str(y), 4)

\* C8: the date of the mapping is the typed date, normalised to DD/MM/YYYY,
\* whenever the typed string matches day/month/year and denotes a real calendar
\* date; for every other typed string it is the calendar-picker date.
C8_DateChoice ==
    result # None =>
        LET g      == re_match_date(strip(args[1].date_text))
            picker == args[1].date_picker
        IN  /\ result[1].date_str_final =
                   (IF g # None /\ RealDate(int(g[1][1]), int(g[1][2]), int(g[1][3]))
                    THEN DDMMYYYY(int(g[1][1]), int(g[1][2]), int(g[1][3]))
                    ELSE DDMMYYYY(picker.day, picker.month, picker.year))
            /\ Get(result[1].mapping, "{{DD/MM/YYYY}}", "") = result[1].date_str_final
            /\ Get(result[1].mapping, "DD/MM/YYYY", "") = result[1].date_str_final

\* C6: whenever the template branch raises, the exception is reported with its
\* message, the from-scratch document is built instead, stored and offered for
\* download under the request's filename, and a further request made in that
\* state again yields an artifact.
C6_ErrorFallsBack ==
    (submitted /\ req # None /\ TemplatePathOfRequest # None) =>
        LET r == create_docx_from_template(TemplatePathOfRequest[1],
                                           MappingOf(req[1], padYear), readable)
        IN  r.raised # None =>
                /\ messages = <<[kind |-> "error",
                                 text |-> "Error applying template replacements: "
                                              \o r.raised[1]]>>
                /\ docx_bytes = Some(FallbackOf(req[1], fs, padYear))
                /\ filename = Some(FilenameOf(req[1]))
                /\ offered = Some([data |-> docx_bytes[1], file_name |-> filename])
                /\ \E form \in SessionForms :
                       Generate(form, fs, padYear, readable).final_bytes # None

\* A request found a well-formed template, an error was reported, and an
\* artifact is offered.
C6_Witness ==
    /\ submitted
    /\ readable
    /\ req # None
    /\ TemplatePathOfRequest = Some("MOD PSS.docx")
    /\ Len(messages) = 1
    /\ messages[1].kind = "error"
    /\ offered # None

\* C3 as stated: a request whose template is not found leaves a previously
\* stored artifact unchanged (bytes and filename after equal those before).
C3_PriorArtifactKept ==
    [][(submitted' /\ docx_bytes # None
            /\ find_template_for_code(Some(req'[1].user_code), fs) = None)
          => (docx_bytes' = docx_bytes /\ filename' = filename)]_vars

\* C3 as amended: a request whose template is not found reports it, and the
\* session then holds and offers the from-scratch document of that request under
\* that request's filename, in place of any earlier artifact.
C3_FallbackStored ==
    (submitted /\ req # None /\ TemplatePathOfRequest = None) =>
        /\ messages = <<[kind |-> "warning",
                         text |-> "Template for this code not found - generating fallback DOCX."]>>
        /\ docx_bytes = Some(FallbackOf(req[1], fs, padYear))
        /\ filename = Some(FilenameOf(req[1]))
        /\ offered = Some([data |-> FallbackOf(req[1], fs, padYear),
                           file_name |-> Some(FilenameOf(req[1]))])

\* A request with the unrecognized code 999 stored its from-scratch document.
C3_Witness ==
    /\ submitted
    /\ req # None
    /\ req[1].user_code = "999"
    /\ Len(messages) = 1
    /\ messages[1].kind = "warning"
    /\ docx_bytes = Some(FallbackOf(req[1], fs, padYear))
    /\ Contains(filename[1], " GEN ")

====
